---- MODULE Spec2Model ----
(***************************************************************************)
(* A model of packages/core/src/StateNode.ts: the construction of a tree   *)
(* of state nodes from a declarative configuration, the lazily cached      *)
(* views of a node, and StateNode.next, the resolution of one event        *)
(* against one node.                                                       *)
(*                                                                         *)
(* JavaScript values are represented as follows.  `undefined` is the       *)
(* string "undefined" wherever the other values of the field are strings,  *)
(* and a `def` flag wherever they are not.  An object used as a dictionary *)
(* is a function whose DOMAIN is the set of its keys.  A state node (an    *)
(* object reference) is one of the names in NodeRefs; its key and its id   *)
(* are fields of the constructed node, distinct from that name.            *)
(***************************************************************************)
EXTENDS Integers, Sequences, FiniteSets, TLC

VARIABLES
  config,       \* the StateNodeConfig tree handed to the constructor
  subject,      \* the node whose `next` the environment calls
  nodes,        \* the constructed StateNode objects, by reference
  constructed,  \* whether `new StateNode(config)` has returned
  cache,        \* every node's __cache
  services,     \* machine.options.services, the service table of the root
  ret,          \* what the last operation returned or threw
  computed,     \* the <<view, node>> whose computation has run
  recomputed    \* the <<view, node>> whose computation has run more than once

vars == <<config, subject, nodes, constructed, cache, services, ret,
          computed, recomputed>>

\* The longest list of handlers a node declares.
MaxCands == 2

\* The longest list of invocations a node declares.
MaxInvokes == 2

Undefined == "undefined"

\* constants.ts
STATE_DELIMITER == "."

Root == "m"
NodeRefs == {"m", "idle", "active", "work", "w1", "w2", "hist"}

Range(s) == {s[i] : i \in DOMAIN s}

RECURSIVE SeqsUpTo(_, _)
\* The sequences without repetition, of length at most k, over the set S.
SeqsUpTo(S, k) ==
  IF k = 0 THEN {<<>>}
  ELSE LET shorter == SeqsUpTo(S, k - 1)
           longest == {t \in shorter : Len(t) = k - 1}
       IN shorter \cup UNION {{Append(s, x) : x \in S \ Range(s)} : s \in longest}

RECURSIVE Flatten(_)
\* utils.flatten: the concatenation of a sequence of sequences.
Flatten(ss) == IF ss = <<>> THEN <<>> ELSE Head(ss) \o Flatten(Tail(ss))

\* JavaScript's `a || b` on values whose only falsy one is undefined.
OrElse(a, b) == IF a # Undefined THEN a ELSE b

(***************************************************************************)
(* Configuration                                                           *)
(***************************************************************************)

Guards == {"g1", "g2"}
\* What a guard callback does when it is called: it returns or it throws.
GuardOutcomes == {"true", "false", "throw"}
\* g1 is a named guard; g2 is anonymous, known only by its type.
GuardName(g) == IF g = "g1" THEN "isReady" ELSE ""
GuardType(g) == IF g = "g1" THEN "xstate.guard" ELSE "custom"

EventNames == {"GO", "START"}

NoIn == [kind |-> "none", id |-> "", path |-> <<>>]
InById(id) == [kind |-> "id", id |-> id, path |-> <<>>]
InRelative(p) == [kind |-> "rel", id |-> "", path |-> p]

ById(id) == [kind |-> "id", ref |-> id]
ByKey(k) == [kind |-> "key", ref |-> k]

\* One entry of a node's `on`, in its array form.
Handler(ev, cond, in, hasTarget, target, internal, actions) ==
  [event |-> ev, cond |-> cond, in |-> in, hasTarget |-> hasTarget,
   target |-> target, internal |-> internal, actions |-> actions]

\* The handlers the node whose `next` is called may declare, by node.  Each
\* node has a cache of its own, which a call of next on another node neither
\* reads nor writes, so one behaviour calls next on one node.
HandlerPool(n) ==
  IF n = "idle" THEN
    { Handler("GO", "g1", NoIn, TRUE, <<ById("m.active")>>, Undefined, <<>>),
      Handler("GO", "g2", NoIn, TRUE, <<ById("m.work")>>, Undefined, <<"notify">>),
      Handler("GO", "g1", InById("m.work"), FALSE, <<>>, Undefined, <<"inc">>),
      Handler("START", Undefined, InRelative(<<"idle">>), TRUE,
              <<ById("m.work.hist")>>, Undefined, <<>>) }
  ELSE IF n = "work" THEN
    { Handler("GO", "g1", NoIn, TRUE, <<ById("m.work.w2"), ById("m.work.w1")>>,
              Undefined, <<"log">>),
      Handler("GO", "g2", InById("m.idle"), TRUE, <<ById("m.work.w1")>>, "true", <<>>),
      Handler("GO", Undefined, InRelative(<<"work">>), TRUE, <<>>, "true", <<"inc">>),
      Handler("START", "g2", NoIn, TRUE, <<ById("m.work")>>, Undefined, <<>>) }
  ELSE
    { Handler("GO", "g1", NoIn, TRUE, <<ById("m.idle")>>, Undefined, <<"log">>),
      Handler("GO", Undefined, NoIn, FALSE, <<>>, Undefined, <<"inc">>),
      Handler("START", "g2", InRelative(<<"work">>), TRUE, <<ById("m.work.w1")>>,
              Undefined, <<>>) }

\* A StateNodeConfig, with the key its parent's `states` gives it (the root's
\* is its own `key`) and its children in declaration order.
NodeConfig(key, id, type, initial, states, history, delimiter, on) ==
  [key |-> key, id |-> id, type |-> type, initial |-> initial, states |-> states,
   history |-> history, delimiter |-> delimiter, on |-> on, invoke |-> <<>>]

Leaf(key) == NodeConfig(key, Undefined, Undefined, Undefined, <<>>, Undefined, Undefined, <<>>)

\* m { idle, active, work { w1, w2, hist } }
FullTree ==
  [n \in NodeRefs |->
     IF n = "m" THEN NodeConfig("m", Undefined, Undefined, "idle",
                                <<"idle", "active", "work">>, Undefined, Undefined, <<>>)
     ELSE IF n = "work" THEN NodeConfig("work", Undefined, Undefined, "w1",
                                <<"w1", "w2", "hist">>, Undefined, Undefined, <<>>)
     ELSE IF n = "hist" THEN NodeConfig("hist", Undefined, Undefined, Undefined,
                                <<>>, "true", Undefined, <<>>)
     ELSE Leaf(n)]

\* m { idle, active } with idle.on = { START: { target: "active" } }
ExampleTree ==
  [n \in {"m", "idle", "active"} |->
     IF n = "m" THEN NodeConfig("m", Undefined, Undefined, "idle",
                                <<"idle", "active">>, Undefined, Undefined, <<>>)
     ELSE IF n = "idle" THEN
            [Leaf(n) EXCEPT !.on = <<Handler("START", Undefined, NoIn, TRUE,
                                             <<ByKey("active")>>, Undefined, <<>>)>>]
     ELSE Leaf(n)]

Subjects == {"idle", "work", "hist"}

WithHandlers(tree, n, on) == [tree EXCEPT ![n].on = on]

ResolveConfigs ==
  UNION {{[tree |-> WithHandlers(FullTree, s, on), subject |-> s] :
            on \in SeqsUpTo(HandlerPool(s), MaxCands)} : s \in Subjects}
  \cup {[tree |-> ExampleTree, subject |-> "idle"]}

(***************************************************************************)
(* The constructor                                                         *)
(***************************************************************************)

\* options._parent: the node whose `states` declares n.
ParentOf(tree, n) ==
  IF \E p \in DOMAIN tree : n \in Range(tree[p].states)
  THEN CHOOSE p \in DOMAIN tree : n \in Range(tree[p].states)
  ELSE Undefined

RECURSIVE PathOf(_, _)
\* this.path = this.parent ? this.parent.path.concat(this.key) : []
PathOf(tree, n) ==
  IF ParentOf(tree, n) = Undefined THEN <<>>
  ELSE Append(PathOf(tree, ParentOf(tree, n)), tree[n].key)

RECURSIVE Join(_, _)
\* Array.prototype.join
Join(parts, delimiter) ==
  IF parts = <<>> THEN ""
  ELSE IF Len(parts) = 1 THEN parts[1]
  ELSE parts[1] \o delimiter \o Join(Tail(parts), delimiter)

\* MachineNode.delimiter: the root's configured delimiter, or the default.
MachineDelimiter(tree) == OrElse(tree[Root].delimiter, STATE_DELIMITER)

\* const isMachine = !this.parent, read before this.parent is assigned.
IsMachine(tree, n) == TRUE

IdOf(tree, n) ==
  OrElse(tree[n].id,
         Join(<<tree[Root].key>> \o PathOf(tree, n),
              IF IsMachine(tree, n)
              THEN OrElse(tree[n].delimiter, STATE_DELIMITER)
              ELSE MachineDelimiter(tree)))

TypeOf(tree, n) ==
  OrElse(tree[n].type,
         IF tree[n].states # <<>> THEN "compound"
         ELSE IF tree[n].history \notin {Undefined, "false"} THEN "history"
         ELSE "atomic")

HistoryOf(tree, n) ==
  IF tree[n].history = "true" THEN "shallow"
  ELSE IF tree[n].history = Undefined THEN "false"
  ELSE tree[n].history

\* Object.assign(target, source)
Assign(target, source) ==
  [k \in DOMAIN target \cup DOMAIN source |->
     IF k \in DOMAIN source THEN source[k] ELSE target[k]]

EmptyObject == [k \in {} |-> Undefined]

RECURSIVE IdMapOf(_, _)
RECURSIVE IdMapOver(_, _, _)
\* The idMap after the children in `kids` have been constructed in turn.
IdMapOver(tree, kids, idMap) ==
  IF kids = <<>> THEN idMap
  ELSE LET child == Head(kids)
           own == [k \in {IdOf(tree, child)} |-> child]
       IN IdMapOver(tree, Tail(kids),
                    Assign(idMap, Assign(own, IdMapOf(tree, child))))

IdMapOf(tree, n) == IdMapOver(tree, tree[n].states, EmptyObject)

StateNode(tree, n) ==
  [config |-> tree[n],
   key |-> tree[n].key,
   parent |-> ParentOf(tree, n),
   path |-> PathOf(tree, n),
   id |-> IdOf(tree, n),
   type |-> TypeOf(tree, n),
   initial |-> tree[n].initial,
   states |-> tree[n].states,
   history |-> HistoryOf(tree, n),
   idMap |-> IdMapOf(tree, n)]

(***************************************************************************)
(* State snapshots and events                                              *)
(***************************************************************************)

\* A state value is the set of the paths (from the root) of its active nodes;
\* `def` is FALSE for a state without a value.
NoValue == [def |-> FALSE, paths |-> {}]
AtIdle == [def |-> TRUE, paths |-> {<<"idle">>}]
AtW1 == [def |-> TRUE, paths |-> {<<"work">>, <<"work", "w1">>}]

HistoryIds == {"m.work.hist"}
NoHistory == [id \in HistoryIds |-> [def |-> FALSE, configuration |-> <<>>]]
Recorded == [id \in HistoryIds |-> [def |-> TRUE, configuration |-> <<"w2">>]]

\* state.historyValue[id]
HistoryAt(S, id) ==
  IF id \in DOMAIN S.historyValue THEN S.historyValue[id]
  ELSE [def |-> FALSE, configuration |-> <<>>]

\* The context of a snapshot is represented by what each guard does in it.
Context(g1, g2) == [g \in Guards |-> IF g = "g1" THEN g1 ELSE g2]

Contexts ==
  {Context("true", "true"), Context("true", "throw"), Context("false", "true"),
   Context("false", "false"), Context("false", "throw"), Context("throw", "true")}

Snapshots ==
  {[value |-> vh[1], historyValue |-> vh[2], context |-> c] :
      vh \in {<<NoValue, NoHistory>>, <<AtIdle, Recorded>>, <<AtW1, NoHistory>>},
      c \in Contexts}

(***************************************************************************)
(* Transitions and candidates                                              *)
(***************************************************************************)

\* The node a target reference names: by id through the root's idMap, by key
\* among the siblings of n.
ResolveTarget(ns, n, ref) ==
  IF ref.kind = "id" THEN ns[Root].idMap[ref.ref]
  ELSE CHOOSE c \in Range(ns[ns[n].parent].states) : ns[c].key = ref.ref

\* stateUtils.formatTransitions: the handlers of n in declaration order, each
\* with its targets resolved to nodes and its `internal` flag settled.
formatTransitions(ns, n) ==
  LET on == ns[n].config.on
  IN [i \in 1..Len(on) |->
        [eventType |-> on[i].event,
         cond |-> on[i].cond,
         in |-> on[i].in,
         hasTarget |-> on[i].hasTarget,
         target |-> [j \in 1..Len(on[i].target) |-> ResolveTarget(ns, n, on[i].target[j])],
         actions |-> on[i].actions,
         internal |-> IF on[i].internal # Undefined THEN on[i].internal = "true"
                      ELSE ~on[i].hasTarget,
         source |-> n]]

\* stateUtils.getCandidates: the transitions of the node for the event name.
getCandidates(transitions, eventName) ==
  LET Same(t) == t.eventType = eventName
  IN SelectSeq(transitions, Same)

(***************************************************************************)
(* The caches                                                              *)
(***************************************************************************)

\* A StateValue, or undefined: the key of a leaf, or an object from keys to
\* state values.
UndefinedValue == [t |-> "undefined"]
StringValue(k) == [t |-> "string", s |-> k]
ObjectValue(o) == [t |-> "object", o |-> o]

\* JavaScript's truthiness of such a value
Truthy(v) == v.t = "object" \/ (v.t = "string" /\ v.s # "")

NotCached == [def |-> FALSE, list |-> <<>>]
Cached(list) == [def |-> TRUE, list |-> list]

\* __cache of a node just constructed
EmptyCache ==
  [transitions |-> NotCached,
   candidates |-> [e \in EventNames |-> NotCached],
   initialStateValue |-> UndefinedValue,
   on |-> NotCached,
   events |-> NotCached,
   invoke |-> NotCached]

\* get transitions(): the cached list, or formatTransitions stored.
TransitionsGet(ns, c, n) ==
  IF c.transitions.def THEN [value |-> c.transitions.list, cache |-> c]
  ELSE LET list == formatTransitions(ns, n)
       IN [value |-> list, cache |-> [c EXCEPT !.transitions = Cached(list)]]

\* A lookup that stores all the transitions of the node under the event name.
CandidatesGetStoringAll(ns, c, n, eventName) ==
  IF c.candidates[eventName].def
  THEN [value |-> c.candidates[eventName].list, cache |-> c]
  ELSE LET t == TransitionsGet(ns, c, n)
       IN [value |-> getCandidates(t.value, eventName),
           cache |-> [t.cache EXCEPT !.candidates[eventName] = Cached(t.value)]]

\* A lookup that takes the entry of any event name for a hit.
CandidatesGetAnyEntry(ns, c, n, eventName) ==
  IF \E e \in EventNames : c.candidates[e].def
  THEN [value |-> c.candidates[CHOOSE e \in EventNames : c.candidates[e].def].list,
        cache |-> c]
  ELSE LET t == TransitionsGet(ns, c, n)
           list == getCandidates(t.value, eventName)
       IN [value |-> list,
           cache |-> [t.cache EXCEPT !.candidates[eventName] = Cached(list)]]

\* this.__cache.candidates[eventName] ||
\*   (this.__cache.candidates[eventName] = getCandidates(this, eventName))
CandidatesGet(ns, c, n, eventName) ==
  IF c.candidates[eventName].def
  THEN [value |-> c.candidates[eventName].list, cache |-> c]
  ELSE LET t == TransitionsGet(ns, c, n)
           list == getCandidates(t.value, eventName)
       IN [value |-> list,
           cache |-> [t.cache EXCEPT !.candidates[eventName] = Cached(list)]]

(***************************************************************************)
(* next                                                                    *)
(***************************************************************************)

\* stateUtils.getStateNodeById, through the root's idMap
getStateNodeById(ns, id) == ns[Root].idMap[id]

\* State.matches on the state value of a path: the node at the path is active.
Matches(S, p) == p \in S.value.paths

\* this.path.slice(0, -2)
SliceOffTwo(p) == IF Len(p) <= 2 THEN <<>> ELSE SubSeq(p, 1, Len(p) - 2)

\* utils.path(props)(state.value): the value below the node at `props`
ValueAt(value, props) ==
  {SubSeq(q, Len(props) + 1, Len(q)) :
     q \in {r \in value.paths : /\ Len(r) > Len(props)
                                /\ SubSeq(r, 1, Len(props)) = props}}

\* utils.matchesState(toStateValue(stateIn), value)
matchesState(pattern, valuePaths) == pattern \in valuePaths

\* const isInState = stateIn ? (by id ? ... : ...) : true
IsInState(ns, n, candidate, S) ==
  IF candidate.in.kind = "none" THEN TRUE
  ELSE IF candidate.in.kind = "id"
  THEN Matches(S, ns[getStateNodeById(ns, candidate.in.id)].path)
  ELSE matchesState(candidate.in.path, ValueAt(S.value, SliceOffTwo(ns[n].path)))

\* stateUtils.evaluateGuard: the callback of the guard, run on the context.
evaluateGuard(cond, S, E) == S.context[cond]

\* A guard evaluation whose catch block swallows the error: a guard that
\* throws counts as a guard that fails.
GuardPassedSwallowing(cond, S, E) ==
  IF cond = Undefined THEN "true"
  ELSE IF evaluateGuard(cond, S, E) = "throw" THEN "false"
  ELSE evaluateGuard(cond, S, E)

\* guardPassed = !cond || evaluateGuard(this, cond, resolvedContext, _event, state)
GuardPassed(cond, S, E) ==
  IF cond = Undefined THEN "true" ELSE evaluateGuard(cond, S, E)

\* A selection that forgets the in-condition.
SelectsOnGuardAlone(guardPassed, isInState) == guardPassed

\* A selection satisfied by either test.
SelectsOnEither(guardPassed, isInState) == guardPassed \/ isInState

\* if (guardPassed && isInState)
Selects(guardPassed, isInState) == guardPassed /\ isInState

RECURSIVE IterateEagerly(_, _, _, _, _, _, _, _)
\* A loop that has called the guard of every candidate by the time it selects.
IterateEagerly(ns, n, candidates, i, S, E, guardLog, inLog) ==
  IF i > Len(candidates)
  THEN [kind |-> "none", index |-> 0, guardLog |-> guardLog, inLog |-> inLog]
  ELSE LET candidate == candidates[i]
           isInState == IsInState(ns, n, candidate, S)
           inLog2 == IF candidate.in.kind # "none" THEN Append(inLog, i) ELSE inLog
           guardPassed == GuardPassed(candidate.cond, S, E)
           guardLog2 == IF candidate.cond # Undefined
                        THEN Append(guardLog, [index |-> i, guard |-> candidate.cond])
                        ELSE guardLog
           Guarded(j) == candidates[j].cond # Undefined
           rest == SelectSeq([j \in 1..(Len(candidates) - i) |-> i + j], Guarded)
       IN IF guardPassed = "throw"
          THEN [kind |-> "error", index |-> i, guardLog |-> guardLog2, inLog |-> inLog2]
          ELSE IF Selects(guardPassed = "true", isInState)
          THEN [kind |-> "selected", index |-> i,
                guardLog |-> guardLog2 \o [k \in 1..Len(rest) |->
                                [index |-> rest[k], guard |-> candidates[rest[k]].cond]],
                inLog |-> inLog2]
          ELSE IterateEagerly(ns, n, candidates, i + 1, S, E, guardLog2, inLog2)

RECURSIVE IterateInFirst(_, _, _, _, _, _, _, _)
\* An iteration that calls the guard of a candidate only if its in-condition
\* holds.
IterateInFirst(ns, n, candidates, i, S, E, guardLog, inLog) ==
  IF i > Len(candidates)
  THEN [kind |-> "none", index |-> 0, guardLog |-> guardLog, inLog |-> inLog]
  ELSE LET candidate == candidates[i]
           isInState == IsInState(ns, n, candidate, S)
           inLog2 == IF candidate.in.kind # "none" THEN Append(inLog, i) ELSE inLog
           guardPassed == IF isInState THEN GuardPassed(candidate.cond, S, E)
                          ELSE "false"
           guardLog2 == IF candidate.cond # Undefined /\ isInState
                        THEN Append(guardLog, [index |-> i, guard |-> candidate.cond])
                        ELSE guardLog
       IN IF guardPassed = "throw"
          THEN [kind |-> "error", index |-> i, guardLog |-> guardLog2, inLog |-> inLog2]
          ELSE IF Selects(guardPassed = "true", isInState)
          THEN [kind |-> "selected", index |-> i, guardLog |-> guardLog2, inLog |-> inLog2]
          ELSE IterateInFirst(ns, n, candidates, i + 1, S, E, guardLog2, inLog2)

RECURSIVE Iterate(_, _, _, _, _, _, _, _)
\* for (const candidate of candidates) { ... }, from the i-th candidate on.
\* guardLog lists the guard calls made, inLog the in-conditions checked.
Iterate(ns, n, candidates, i, S, E, guardLog, inLog) ==
  IF i > Len(candidates)
  THEN [kind |-> "none", index |-> 0, guardLog |-> guardLog, inLog |-> inLog]
  ELSE LET candidate == candidates[i]
           isInState == IsInState(ns, n, candidate, S)
           inLog2 == IF candidate.in.kind # "none" THEN Append(inLog, i) ELSE inLog
           guardPassed == GuardPassed(candidate.cond, S, E)
           guardLog2 == IF candidate.cond # Undefined
                        THEN Append(guardLog, [index |-> i, guard |-> candidate.cond])
                        ELSE guardLog
       IN IF guardPassed = "throw"
          THEN [kind |-> "error", index |-> i, guardLog |-> guardLog2, inLog |-> inLog2]
          ELSE IF Selects(guardPassed = "true", isInState)
          THEN [kind |-> "selected", index |-> i, guardLog |-> guardLog2, inLog |-> inLog2]
          ELSE Iterate(ns, n, candidates, i + 1, S, E, guardLog2, inLog2)

NoError == [guard |-> "", event |-> "", node |-> "", initial |-> "", key |-> ""]

\* `Unable to evaluate guard '${cond.name || cond.type}' in transition for
\* event '${eventName}' in state node '${this.id}'`
GuardError(node, cond, eventName) ==
  [guard |-> IF GuardName(cond) # "" THEN GuardName(cond) ELSE GuardType(cond),
   event |-> eventName,
   node |-> node.id,
   initial |-> "",
   key |-> ""]

StateTransition(transitions, entrySet, exitSet, configuration, source, actions) ==
  [transitions |-> transitions, entrySet |-> entrySet, exitSet |-> exitSet,
   configuration |-> configuration, source |-> source, actions |-> actions]

NoResult == StateTransition(<<>>, <<>>, <<>>, <<>>, [def |-> FALSE], <<>>)

\* A short-circuit that looks the history value up by the key of the node.
IsHistoryShortCircuitByKey(node, S) ==
  node.type = "history" /\ HistoryAt(S, node.key).def

\* this.type === 'history' && state.historyValue[this.id]
IsHistoryShortCircuit(node, S) ==
  node.type = "history" /\ HistoryAt(S, node.id).def

HistoryResult(node, S) ==
  StateTransition(<<>>, <<>>, <<>>, HistoryAt(S, node.id).configuration, S, <<>>)

\* A targetless result that does not look at state.value.
NoTargetResultAlwaysSelf(n, selectedTransition, S, actions) ==
  StateTransition(<<selectedTransition>>, <<>>, <<>>, <<n>>, S, actions)

\* if (!nextStateNodes.length) return { ... }
NoTargetResult(n, selectedTransition, S, actions) ==
  StateTransition(<<selectedTransition>>, <<>>, <<>>,
                  IF S.value.def THEN <<n>> ELSE <<>>, S, actions)

ChildByKey(ns, p, k) ==
  IF \E c \in Range(ns[p].states) : ns[c].key = k
  THEN CHOOSE c \in Range(ns[p].states) : ns[c].key = k
  ELSE Undefined

RECURSIVE getRelativeStateNodes(_, _, _)
RECURSIVE ExpandAll(_, _, _)
ExpandAll(ns, ts, S) ==
  IF ts = <<>> THEN <<>>
  ELSE getRelativeStateNodes(ns, Head(ts), S) \o ExpandAll(ns, Tail(ts), S)

\* stateUtils.getRelativeStateNodes: a target expanded down to its leaves.
getRelativeStateNodes(ns, t, S) ==
  LET node == ns[t]
      InitialChild(p) == ChildByKey(ns, p, ns[p].initial)
      NotHistory(c) == ns[c].type # "history"
  IN IF node.type = "history"
     THEN IF HistoryAt(S, node.id).def THEN HistoryAt(S, node.id).configuration
          ELSE IF InitialChild(node.parent) \in {Undefined, t} THEN <<>>
          ELSE getRelativeStateNodes(ns, InitialChild(node.parent), S)
     ELSE IF node.type = "parallel"
     THEN ExpandAll(ns, SelectSeq(node.states, NotHistory), S)
     ELSE IF node.type = "compound"
     THEN IF InitialChild(t) = Undefined THEN <<>>
          ELSE getRelativeStateNodes(ns, InitialChild(t), S)
     ELSE <<t>>

RECURSIVE AncestorsOrSelf(_, _)
AncestorsOrSelf(ns, x) ==
  IF ns[x].parent = Undefined THEN {x}
  ELSE {x} \cup AncestorsOrSelf(ns, ns[x].parent)

RECURSIVE nodesFromChild(_, _, _)
\* stateUtils.nodesFromChild: the nodes to enter from the child up to the
\* node inclusive, or up to the branch they share when the child is not
\* below the node.
nodesFromChild(ns, n, child) ==
  IF child = n THEN <<n>>
  ELSE IF child \in AncestorsOrSelf(ns, n) THEN <<>>
  ELSE <<child>> \o nodesFromChild(ns, n, ns[child].parent)

\* An exit set that does not look at `internal`.
ExitSetAlways(n, isInternal) == <<n>>

\* exitSet: isInternal ? [] : [this]
ExitSet(n, isInternal) == IF isInternal THEN <<>> ELSE <<n>>

\* reentryNodes
EntrySet(ns, n, isInternal, allNextStateNodes) ==
  IF isInternal THEN <<>>
  ELSE Flatten([i \in 1..Len(allNextStateNodes) |->
                  nodesFromChild(ns, n, allNextStateNodes[i])])

TargetResult(ns, n, selectedTransition, nextStateNodes, S, actions) ==
  LET allNextStateNodes == ExpandAll(ns, nextStateNodes, S)
      isInternal == selectedTransition.internal
  IN StateTransition(<<selectedTransition>>,
                     EntrySet(ns, n, isInternal, allNextStateNodes),
                     ExitSet(n, isInternal),
                     allNextStateNodes, S, actions)

\* A selection that never takes over the targets of the candidate.
NextStateNodesDropped(candidate) == <<>>

\* if (candidate.target !== undefined) { nextStateNodes = candidate.target; }
NextStateNodes(candidate) == IF candidate.hasTarget THEN candidate.target ELSE <<>>

\* A selection that collects no actions.
CollectActionsNone(candidate) == <<>>

\* actions.push(...candidate.actions)
CollectActions(candidate) == candidate.actions

Outcome(kind, result, error, it, looked, c) ==
  [kind |-> kind, result |-> result, error |-> error, selected |-> it.index,
   guardLog |-> it.guardLog, inLog |-> it.inLog, looked |-> looked, cache |-> c]

\* StateNode.next on node n, whose cache is c
next(ns, c, n, S, E) ==
  IF IsHistoryShortCircuit(ns[n], S)
  THEN Outcome("result", HistoryResult(ns[n], S), NoError,
               [index |-> 0, guardLog |-> <<>>, inLog |-> <<>>], FALSE, c)
  ELSE LET cg == CandidatesGet(ns, c, n, E)
           candidates == cg.value
           it == Iterate(ns, n, candidates, 1, S, E, <<>>, <<>>)
       IN IF it.kind = "error"
          THEN Outcome("error", NoResult,
                       GuardError(ns[n], candidates[it.index].cond, E),
                       it, TRUE, cg.cache)
          ELSE IF it.kind = "none"
          THEN Outcome("undefined", NoResult, NoError, it, TRUE, cg.cache)
          ELSE LET selectedTransition == candidates[it.index]
                   nextStateNodes == NextStateNodes(selectedTransition)
                   actions == CollectActions(selectedTransition)
               IN IF nextStateNodes = <<>>
                  THEN Outcome("result",
                               NoTargetResult(n, selectedTransition, S, actions),
                               NoError, it, TRUE, cg.cache)
                  ELSE Outcome("result",
                               TargetResult(ns, n, selectedTransition,
                                            nextStateNodes, S, actions),
                               NoError, it, TRUE, cg.cache)

(***************************************************************************)
(* initialStateValue                                                       *)
(***************************************************************************)

\* stateUtils.isLeafNode
isLeafNode(node) == node.type \in {"atomic", "final"}

\* The error naming the node by its id.
InitialErrorById(node) ==
  [guard |-> "", event |-> "", node |-> "", initial |-> node.initial, key |-> node.id]

\* `Initial state '${this.initial}' not found on '${this.key}'`
InitialError(node) ==
  [guard |-> "", event |-> "", node |-> "", initial |-> node.initial, key |-> node.key]

IsvReturn(value, cs, ran) ==
  [threw |-> FALSE, value |-> value, error |-> NoError, caches |-> cs, ran |-> ran]
IsvThrow(error, cs, ran) ==
  [threw |-> TRUE, value |-> UndefinedValue, error |-> error, caches |-> cs, ran |-> ran]

\* this.__cache.initialStateValue = initialStateValue
IsvStore(n, value, cs, ran) ==
  IsvReturn(value, [cs EXCEPT ![n].initialStateValue = value], ran)

\* Every child, history nodes included.
InitialChildrenAll(ns, n) == ns[n].states

\* The children mapFilterValues keeps: stateNode => !(stateNode.type === 'history')
InitialChildren(ns, n) ==
  LET NotHistory(c) == ns[c].type # "history"
  IN SelectSeq(ns[n].states, NotHistory)

RECURSIVE initialStateValue(_, _, _)
RECURSIVE MapInitialValues(_, _, _, _, _)
\* mapFilterValues over the children `kids`, in turn: each child's initialStateValue || EMPTY_OBJECT under its key.
MapInitialValues(ns, cs, kids, acc, ran) ==
  IF kids = <<>> THEN IsvReturn(ObjectValue(acc), cs, ran)
  ELSE LET child == Head(kids)
           r == initialStateValue(ns, cs, child)
           entry == [k \in {ns[child].key} |->
                       IF Truthy(r.value) THEN r.value ELSE ObjectValue(EmptyObject)]
       IN IF r.threw THEN IsvThrow(r.error, r.caches, ran \o r.ran)
          ELSE MapInitialValues(ns, r.caches, Tail(kids), Assign(acc, entry), ran \o r.ran)

\* get initialStateValue() of node n, the caches of all the nodes being cs.
\* `ran` lists the nodes whose value was computed rather than read from cache.
initialStateValue(ns, cs, n) ==
  LET node == ns[n]
      child == ChildByKey(ns, n, node.initial)
  IN IF Truthy(cs[n].initialStateValue)
     THEN IsvReturn(cs[n].initialStateValue, cs, <<>>)
     ELSE IF node.type = "parallel"
     THEN LET m == MapInitialValues(ns, cs, InitialChildren(ns, n), EmptyObject, <<n>>)
          IN IF m.threw THEN m ELSE IsvStore(n, m.value, m.caches, m.ran)
     ELSE IF node.initial # Undefined
     THEN IF child = Undefined THEN IsvThrow(InitialError(node), cs, <<n>>)
          ELSE IF isLeafNode(ns[child])
          THEN IsvStore(n, StringValue(node.initial), cs, <<n>>)
          ELSE LET r == initialStateValue(ns, cs, child)
               IN IF r.threw THEN IsvThrow(r.error, r.caches, <<n>> \o r.ran)
                  ELSE IsvStore(n, ObjectValue([k \in {node.initial} |-> r.value]),
                                r.caches, <<n>> \o r.ran)
     ELSE IsvStore(n, UndefinedValue, cs, <<n>>)

(***************************************************************************)
(* The operations                                                          *)
(***************************************************************************)

NoSnapshot == [def |-> FALSE]

NoRet ==
  [op |-> "none", node |-> Undefined, state |-> NoSnapshot, event |-> Undefined,
   kind |-> "none", result |-> NoResult, error |-> NoError, selected |-> 0,
   guardLog |-> <<>>, inLog |-> <<>>, looked |-> FALSE, before |-> EmptyCache,
   value |-> UndefinedValue, ran |-> <<>>, table |-> EmptyObject]

Init ==
  /\ \E rc \in ResolveConfigs : config = rc.tree /\ subject = rc.subject
  /\ nodes = EmptyObject
  /\ constructed = FALSE
  /\ cache = EmptyObject
  /\ services = EmptyObject
  /\ ret = NoRet
  /\ computed = {}
  /\ recomputed = {}

\* new StateNode(config, ...) on the root configuration
Construct ==
  /\ ~constructed
  /\ nodes' = [n \in DOMAIN config |-> StateNode(config, n)]
  /\ cache' = [n \in DOMAIN config |-> EmptyCache]
  /\ constructed' = TRUE
  /\ ret' = [NoRet EXCEPT !.op = "new", !.node = Root, !.kind = "result"]
  /\ UNCHANGED <<config, subject, services, computed, recomputed>>

\* The computations of the views in `pairs` have run once more.
Ran(pairs) ==
  /\ computed' = computed \cup pairs
  /\ recomputed' = recomputed \cup (pairs \cap computed)

\* subject.next(S, E)
CallNext(S, E) ==
  /\ constructed
  /\ LET r == next(nodes, cache[subject], subject, S, E)
     IN /\ ret' = [op |-> "next", node |-> subject, state |-> S, event |-> E,
                   kind |-> r.kind, result |-> r.result, error |-> r.error,
                   selected |-> r.selected, guardLog |-> r.guardLog,
                   inLog |-> r.inLog, looked |-> r.looked,
                   before |-> cache[subject], value |-> UndefinedValue, ran |-> <<>>,
                   table |-> services]
        /\ cache' = [cache EXCEPT ![subject] = r.cache]
        /\ Ran(IF r.cache.transitions.def /\ ~cache[subject].transitions.def
               THEN {<<"transitions", subject>>} ELSE {})
  /\ UNCHANGED <<config, subject, nodes, constructed, services>>

Next ==
  \/ Construct
  \/ \E S \in Snapshots, E \in EventNames : CallNext(S, E)

Spec == Init /\ [][Next]_vars

\* Trees that differ in what their compound nodes declare as initial, and in
\* the types of m and of work.
InitialVariants ==
  {[FullTree EXCEPT !["m"].initial = mi, !["m"].type = mt,
                    !["work"].initial = wi, !["work"].type = wt] :
      mi \in {Undefined, "idle", "work", "gone"},
      mt \in {Undefined, "parallel"},
      wi \in {Undefined, "w1", "gone"},
      wt \in {Undefined, "parallel"}}

\* Trees that differ in the delimiters and in the ids their nodes configure.
IdVariants ==
  {[FullTree EXCEPT !["m"].delimiter = md, !["work"].delimiter = wd,
                    !["idle"].id = ii, !["w1"].id = wi] :
      md \in {Undefined, "/"},
      wd \in {Undefined, "/"},
      ii \in {Undefined, "start"},
      wi \in {Undefined, "start", "m.work"}}

TreeConfigs == InitialVariants \cup IdVariants

\* The node, besides the root, whose views one behaviour reads.
TreeSubjects == {"idle", "work", "w1"}

InitTree ==
  /\ config \in TreeConfigs
  /\ subject \in TreeSubjects
  /\ nodes = EmptyObject
  /\ constructed = FALSE
  /\ cache = EmptyObject
  /\ services = EmptyObject
  /\ ret = NoRet
  /\ computed = {}
  /\ recomputed = {}

\* n.initialStateValue
InitialStateValue(n) ==
  /\ constructed
  /\ LET r == initialStateValue(nodes, cache, n)
     IN /\ ret' = [NoRet EXCEPT !.op = "initialStateValue", !.node = n,
                                !.kind = IF r.threw THEN "error" ELSE "value",
                                !.value = r.value, !.error = r.error, !.ran = r.ran,
                                !.before = cache[n]]
        /\ cache' = r.caches
        /\ Ran({<<"initialStateValue", c>> : c \in Range(r.ran)})
  /\ UNCHANGED <<config, subject, nodes, constructed, services>>

NextTree ==
  \/ Construct
  \/ \E n \in {Root, subject} : InitialStateValue(n)

SpecTree == InitTree /\ [][NextTree]_vars

(***************************************************************************)
(* invoke                                                                  *)
(***************************************************************************)

\* What an invocation names as its source: the name of a service, or an
\* implementation given in place (a machine, a function), known by `ref`.
Named(name) == [named |-> TRUE, ref |-> name]
Anonymous(impl) == [named |-> FALSE, ref |-> impl]

\* An entry of config.invoke: an object { id?, src }, or the source alone.
InvokeObject(id, src) == [form |-> "object", id |-> id, src |-> src]
InvokeBare(src) == [form |-> "bare", id |-> Undefined, src |-> src]

Invocables ==
  { InvokeObject(Undefined, Anonymous("fnA")),
    InvokeObject("loader", Anonymous("fnB")),
    InvokeObject(Undefined, Named("fetchUser")),
    InvokeBare(Anonymous("fnC")),
    InvokeBare(Named("fetchUser")) }

\* utils.toInvokeConfig: an object with a src is taken as it is; a source
\* alone becomes { id, src }.
toInvokeConfig(invocable, id) ==
  IF invocable.form = "object" THEN [id |-> invocable.id, src |-> invocable.src]
  ELSE [id |-> id, src |-> invocable.src]

\* `${this.id}:invocation[${i}]`
InvocationId(nodeId, i) == nodeId \o ":invocation[" \o ToString(i) \o "]"

\* The table after an implementation given in place has been written under
\* resolvedSrc whatever the table holds.
RegisterServiceAlways(table, resolvedSrc, src) ==
  IF ~src.named THEN Assign(table, [k \in {resolvedSrc} |-> src.ref]) ELSE table

\* if (!services[resolvedSrc] && !isString(src))
\*   services = { ...services, [resolvedSrc]: src }
RegisterService(table, resolvedSrc, src) ==
  IF resolvedSrc \notin DOMAIN table /\ ~src.named
  THEN Assign(table, [k \in {resolvedSrc} |-> src.ref])
  ELSE table

RECURSIVE InvokeOver(_, _, _, _, _)
\* toArray(this.config.invoke).map((invocable, i) => ...), from index i on
InvokeOver(nodeId, invocables, i, defs, table) ==
  IF i >= Len(invocables) THEN [defs |-> defs, services |-> table]
  ELSE LET id == InvocationId(nodeId, i)
           invokeConfig == toInvokeConfig(invocables[i + 1], id)
           resolvedId == OrElse(invokeConfig.id, id)
           resolvedSrc == IF invokeConfig.src.named THEN invokeConfig.src.ref
                          ELSE resolvedId
       IN InvokeOver(nodeId, invocables, i + 1,
                     Append(defs, [type |-> "xstate.invoke", src |-> resolvedSrc,
                                   id |-> resolvedId]),
                     RegisterService(table, resolvedSrc, invokeConfig.src))

\* get invoke()
invoke(ns, c, n, table) ==
  IF c.invoke.def THEN [value |-> c.invoke.list, cache |-> c, services |-> table]
  ELSE LET r == InvokeOver(ns[n].id, ns[n].config.invoke, 0, <<>>, table)
       IN [value |-> r.defs, cache |-> [c EXCEPT !.invoke = Cached(r.defs)],
           services |-> r.services]

\* Trees whose nodes m and idle declare invocations.
InvokeConfigs ==
  {[FullTree EXCEPT !["m"].invoke = mi, !["idle"].invoke = ii] :
      mi \in {<<>>, <<InvokeObject("loader", Anonymous("fnD"))>>},
      ii \in SeqsUpTo(Invocables, MaxInvokes)}

\* machine.options.services as the machine was given it
ServiceTables ==
  { EmptyObject,
    [k \in {"m.idle:invocation[0]"} |-> "given"],
    [k \in {"loader", "fetchUser"} |-> "given"] }

InitInvoke ==
  /\ config \in InvokeConfigs
  /\ subject = "idle"
  /\ nodes = EmptyObject
  /\ constructed = FALSE
  /\ cache = EmptyObject
  /\ services \in ServiceTables
  /\ ret = NoRet
  /\ computed = {}
  /\ recomputed = {}

\* n.invoke
Invoke(n) ==
  /\ constructed
  /\ LET r == invoke(nodes, cache[n], n, services)
     IN /\ ret' = [NoRet EXCEPT !.op = "invoke", !.node = n, !.kind = "value",
                                !.value = r.value, !.before = cache[n],
                                !.table = services]
        /\ cache' = [cache EXCEPT ![n] = r.cache]
        /\ services' = r.services
        /\ Ran(IF cache[n].invoke.def THEN {} ELSE {<<"invoke", n>>})
  /\ UNCHANGED <<config, subject, nodes, constructed>>

NextInvoke ==
  \/ Construct
  \/ \E n \in {Root, subject} : Invoke(n)

SpecInvoke == InitInvoke /\ [][NextInvoke]_vars

(***************************************************************************)
(* on, events, ownEvents, handles                                          *)
(***************************************************************************)

RECURSIVE AddAll(_, _)
\* A Set to which the elements of xs are added in turn, in insertion order.
AddAll(set, xs) ==
  IF xs = <<>> THEN set
  ELSE AddAll(IF Head(xs) \in Range(set) THEN set ELSE Append(set, Head(xs)), Tail(xs))

\* get on(): the transitions grouped by event type
on(ns, c, n) ==
  IF c.on.def THEN [value |-> c.on.list, cache |-> c]
  ELSE LET t == TransitionsGet(ns, c, n)
           map == [e \in {t.value[i].eventType : i \in DOMAIN t.value} |->
                     getCandidates(t.value, e)]
       IN [value |-> map, cache |-> [t.cache EXCEPT !.on = Cached(map)]]

\* get ownEvents(): the event types of the transitions that are not inert
ownEvents(ns, c, n) ==
  LET t == TransitionsGet(ns, c, n)
      NotInert(tr) == ~(~tr.hasTarget /\ tr.actions = <<>> /\ tr.internal)
      kept == SelectSeq(t.value, NotInert)
  IN [value |-> AddAll(<<>>, [i \in DOMAIN kept |-> kept[i].eventType]),
      cache |-> t.cache]

\* A child counts only if it has children of its own.
HasNestedStates(node) == node.states # <<>>

\* if (state.states): the states of a node are the object mapValues returns
\* or EMPTY_OBJECT, and an object is truthy.
HasStates(node) == TRUE

RECURSIVE events(_, _, _)
RECURSIVE ChildEvents(_, _, _, _, _)
\* for (const stateId of keys(states)) ... over the children `kids` in turn
ChildEvents(ns, cs, kids, set, ran) ==
  IF kids = <<>> THEN [value |-> set, caches |-> cs, ran |-> ran]
  ELSE IF HasStates(ns[Head(kids)])
  THEN LET r == events(ns, cs, Head(kids))
       IN ChildEvents(ns, r.caches, Tail(kids), AddAll(set, r.value), ran \o r.ran)
  ELSE ChildEvents(ns, cs, Tail(kids), set, ran)

\* get events() of node n, the caches of all the nodes being cs.  `ran` lists
\* the nodes whose events were computed rather than read from cache.
events(ns, cs, n) ==
  IF cs[n].events.def THEN [value |-> cs[n].events.list, caches |-> cs, ran |-> <<>>]
  ELSE LET own == ownEvents(ns, cs[n], n)
           r == ChildEvents(ns, [cs EXCEPT ![n] = own.cache], ns[n].states,
                            own.value, <<n>>)
       IN [value |-> r.value,
           caches |-> [r.caches EXCEPT ![n].events = Cached(r.value)],
           ran |-> r.ran]

\* handles(event)
handles(ns, cs, n, eventType) ==
  LET r == events(ns, cs, n)
  IN [value |-> eventType \in Range(r.value), caches |-> r.caches, ran |-> r.ran]

ToActive(ev) == Handler(ev, Undefined, NoIn, TRUE, <<ById("m.active")>>, Undefined, <<>>)
\* A handler without target and without actions: an inert transition.
Inert(ev) == Handler(ev, Undefined, NoIn, FALSE, <<>>, Undefined, <<>>)
ActionsOnly(ev) == Handler(ev, Undefined, NoIn, FALSE, <<>>, Undefined, <<"inc">>)

\* Trees whose nodes m, idle, work and w1 declare handlers.
EventConfigs ==
  {[FullTree EXCEPT !["m"].on = mo, !["idle"].on = io, !["work"].on = wo,
                    !["w1"].on = lo] :
      mo \in {<<>>, <<ToActive("GO")>>},
      io \in {<<>>, <<ToActive("START")>>, <<Inert("PING"), ToActive("START")>>},
      wo \in {<<>>, <<ToActive("STOP"), ActionsOnly("STOP")>>},
      lo \in {<<>>, <<ActionsOnly("TICK"), ToActive("GO")>>}}

EventSubjects == {"idle", "work"}
EventTypes == {"START", "TICK", "PING"}

InitEvents ==
  /\ config \in EventConfigs
  /\ subject \in EventSubjects
  /\ nodes = EmptyObject
  /\ constructed = FALSE
  /\ cache = EmptyObject
  /\ services = EmptyObject
  /\ ret = NoRet
  /\ computed = {}
  /\ recomputed = {}

\* The views computed between the caches `before` and `after`.
Filled(before, after) ==
  {<<"transitions", n>> : n \in {c \in DOMAIN after :
       after[c].transitions.def /\ ~before[c].transitions.def}}
  \cup {<<"on", n>> : n \in {c \in DOMAIN after : after[c].on.def /\ ~before[c].on.def}}

\* n.transitions
Transitions(n) ==
  /\ constructed
  /\ LET r == TransitionsGet(nodes, cache[n], n)
         after == [cache EXCEPT ![n] = r.cache]
     IN /\ ret' = [NoRet EXCEPT !.op = "transitions", !.node = n, !.kind = "value",
                                !.value = r.value, !.before = cache[n]]
        /\ cache' = after
        /\ Ran(Filled(cache, after))
  /\ UNCHANGED <<config, subject, nodes, constructed, services>>

\* n.on
On(n) ==
  /\ constructed
  /\ LET r == on(nodes, cache[n], n)
         after == [cache EXCEPT ![n] = r.cache]
     IN /\ ret' = [NoRet EXCEPT !.op = "on", !.node = n, !.kind = "value",
                                !.value = r.value, !.before = cache[n]]
        /\ cache' = after
        /\ Ran(Filled(cache, after))
  /\ UNCHANGED <<config, subject, nodes, constructed, services>>

\* n.events
Events(n) ==
  /\ constructed
  /\ LET r == events(nodes, cache, n)
     IN /\ ret' = [NoRet EXCEPT !.op = "events", !.node = n, !.kind = "value",
                                !.value = r.value, !.ran = r.ran, !.before = cache[n]]
        /\ cache' = r.caches
        /\ Ran(Filled(cache, r.caches) \cup {<<"events", c>> : c \in Range(r.ran)})
  /\ UNCHANGED <<config, subject, nodes, constructed, services>>

\* n.handles(eventType)
Handles(n, eventType) ==
  /\ constructed
  /\ LET r == handles(nodes, cache, n, eventType)
     IN /\ ret' = [NoRet EXCEPT !.op = "handles", !.node = n, !.event = eventType,
                                !.kind = "value", !.value = r.value, !.ran = r.ran,
                                !.before = cache[n]]
        /\ cache' = r.caches
        /\ Ran(Filled(cache, r.caches) \cup {<<"events", c>> : c \in Range(r.ran)})
  /\ UNCHANGED <<config, subject, nodes, constructed, services>>

NextEvents ==
  \/ Construct
  \/ \E n \in {Root, subject} : Transitions(n)
  \/ \E n \in {Root, subject} : On(n)
  \/ \E n \in {Root, subject} : Events(n)
  \/ \E n \in {Root, subject}, e \in EventTypes : Handles(n, e)

SpecEvents == InitEvents /\ [][NextEvents]_vars

(***************************************************************************)
(* Properties of next.  Each is stated of the call recorded in `ret`: the  *)
(* node N it was made on, the snapshot S and the event E it was given.     *)
(***************************************************************************)

IsNext == ret.op = "next"

\* N's candidates for the type of E, in declaration order
Declared == 
  LET Same(t) == t.eventType = ret.event
  IN SelectSeq(formatTransitions(nodes, ret.node), Same)

InHolds(c) == IsInState(nodes, ret.node, c, ret.state)
GuardHolds(c) == c.cond = Undefined \/ ret.state.context[c.cond] = "true"
GuardThrows(c) == c.cond # Undefined /\ ret.state.context[c.cond] = "throw"
Passes(c) == InHolds(c) /\ GuardHolds(c)

\* N is a history node with a configuration recorded for its id in S
ShortCircuited ==
  /\ nodes[ret.node].type = "history"
  /\ nodes[ret.node].id \in DOMAIN ret.state.historyValue
  /\ ret.state.historyValue[nodes[ret.node].id].def

\* next returned a result that carries a selected transition
Selected == IsNext /\ ret.kind = "result" /\ ret.result.transitions # <<>>

\* C1: when next selects a transition (N not short-circuited as a history
\* node, no guard throwing), the transition is the first of N's candidates for
\* the event, in declaration order, whose in-condition and guard both hold (an
\* absent one holds); no earlier candidate satisfies both.
C1_FirstPassingCandidateWins ==
  Selected =>
    \E i \in 1..Len(Declared) :
       /\ ret.result.transitions = <<Declared[i]>>
       /\ Passes(Declared[i])
       /\ \A j \in 1..(i - 1) : ~Passes(Declared[j])

\* A later candidate is selected after one whose guard holds and whose
\* in-condition does not.
C1_Witness ==
  /\ Selected
  /\ ret.selected = 2
  /\ GuardHolds(Declared[1]) /\ Declared[1].cond # Undefined
  /\ ~InHolds(Declared[1])

GoToActive == Handler("GO", "g1", NoIn, TRUE, <<ById("m.active")>>, Undefined, <<>>)
GoToWork == Handler("GO", "g2", NoIn, TRUE, <<ById("m.work")>>, Undefined, <<"notify">>)

\* The call of the example: candidates [g1 -> active, g2 -> work] on idle, a
\* snapshot in which g1 returns false and g2 returns true, and the event GO.
IsGuardExample ==
  /\ IsNext
  /\ ret.node = "idle"
  /\ config["idle"].on = <<GoToActive, GoToWork>>
  /\ ret.event = "GO"
  /\ ret.state.context = Context("false", "true")

\* C2: during one call of next the guards are called in the declaration order
\* of their candidates, the guard of a candidate at most once, and never the
\* guard of a candidate after the selected one; in the example the second
\* candidate is selected, with its target, after g1 and then g2 were called.
C2_GuardsInOrderAtMostOnce ==
  IsNext =>
    /\ \A k \in 1..Len(ret.guardLog) :
          /\ ret.guardLog[k].index \in 1..Len(Declared)
          /\ ret.guardLog[k].guard = Declared[ret.guardLog[k].index].cond
          /\ k > 1 => ret.guardLog[k - 1].index < ret.guardLog[k].index
          /\ Selected => ret.guardLog[k].index <= ret.selected
    /\ IsGuardExample =>
          /\ Selected
          /\ ret.selected = 2
          /\ ret.result.transitions[1].target = <<"work">>
          /\ ret.guardLog = <<[index |-> 1, guard |-> "g1"], [index |-> 2, guard |-> "g2"]>>

\* The example has been run.
C2_Witness == IsGuardExample /\ Selected

\* The candidate at which the iteration stops: the first whose guard throws or
\* which passes both tests.
Stops(i) == GuardThrows(Declared[i]) \/ Passes(Declared[i])

FirstStop == CHOOSE i \in 1..Len(Declared) : Stops(i) /\ \A j \in 1..(i - 1) : ~Stops(j)

\* The guard of a candidate that the iteration reaches throws.
GuardThrowsInCall ==
  /\ IsNext
  /\ ~ShortCircuited
  /\ \E i \in 1..Len(Declared) : Stops(i)
  /\ GuardThrows(Declared[FirstStop])

\* C3: when a guard throws while next iterates the candidates, the call fails
\* with an error naming the guard, the event and the id of the node; it
\* returns no transition result and no later candidate is evaluated or
\* selected.
C3_GuardErrorAborts ==
  GuardThrowsInCall =>
    /\ ret.kind = "error"
    /\ ret.error.guard = (IF GuardName(Declared[FirstStop].cond) # ""
                          THEN GuardName(Declared[FirstStop].cond)
                          ELSE GuardType(Declared[FirstStop].cond))
    /\ ret.error.event = ret.event
    /\ ret.error.node = nodes[ret.node].id
    /\ ret.result = NoResult
    /\ \A k \in 1..Len(ret.guardLog) : ret.guardLog[k].index <= FirstStop
    /\ \A k \in 1..Len(ret.inLog) : ret.inLog[k] <= FirstStop

\* A guard throws and a later candidate would have passed both tests.
C3_Witness ==
  /\ GuardThrowsInCall
  /\ \E j \in (FirstStop + 1)..Len(Declared) : Passes(Declared[j])

\* C4: next on a history node for whose id S records a configuration returns
\* that configuration with empty transitions, entry set, exit set and actions,
\* whatever handlers the node declares; no candidate is looked up, no
\* in-condition checked, no guard called.
C4_HistoryShortCircuit ==
  (IsNext /\ ShortCircuited) =>
    /\ ret.kind = "result"
    /\ ret.result.configuration = ret.state.historyValue[nodes[ret.node].id].configuration
    /\ ret.result.transitions = <<>>
    /\ ret.result.entrySet = <<>>
    /\ ret.result.exitSet = <<>>
    /\ ret.result.actions = <<>>
    /\ ~ret.looked
    /\ ret.guardLog = <<>>
    /\ ret.inLog = <<>>
    /\ cache[ret.node] = ret.before

\* The history node declares a handler for the event that would pass.
C4_Witness ==
  /\ IsNext /\ ShortCircuited
  /\ \E i \in 1..Len(Declared) : Passes(Declared[i])

RECURSIVE Above(_)
\* a node and its ancestors
Above(x) == IF nodes[x].parent = Undefined THEN {x} ELSE {x} \cup Above(nodes[x].parent)

\* The nodes entered for the resolved target t of a transition of node n: those
\* on the path from n down to t when t is n or below it, and otherwise those
\* of the path to t that lie outside the path to n.
PathDown(n, t) ==
  IF n \in Above(t) THEN {x \in Above(t) : n \in Above(x)}
  ELSE Above(t) \ Above(n)

HasTargets(t) == t.hasTarget /\ t.target # <<>>

\* C5: for a selected transition with at least one target: if it is not
\* internal, the exit set is [N] and the entry set is made of the nodes on the
\* path from N down to each resolved target; if it is internal, both are empty.
C5_EntryExitSets ==
  (Selected /\ HasTargets(ret.result.transitions[1])) =>
    IF ret.result.transitions[1].internal
    THEN ret.result.entrySet = <<>> /\ ret.result.exitSet = <<>>
    ELSE /\ ret.result.exitSet = <<ret.node>>
         /\ Range(ret.result.entrySet) =
              UNION {PathDown(ret.node, t) : t \in Range(ret.result.configuration)}

\* An external transition to two nodes below N has been selected.
C5_Witness ==
  /\ Selected /\ HasTargets(ret.result.transitions[1])
  /\ ~ret.result.transitions[1].internal
  /\ Len(ret.result.configuration) = 2
  /\ \A t \in Range(ret.result.configuration) : t # ret.node /\ ret.node \in Above(t)

\* The call of the example: next on idle, in the state at idle, for START, in
\* the machine m { idle, active } with idle.on = { START: { target: "active" } }.
IsStartExample ==
  /\ IsNext
  /\ DOMAIN config = {"m", "idle", "active"}
  /\ ret.node = "idle"
  /\ ret.state.value = AtIdle
  /\ ret.event = "START"

\* C6: in the example next yields the configuration [active], the exit set
\* [idle], the entry set [active] and one selected transition, to active.
C6_StartExample ==
  IsStartExample =>
    /\ ret.kind = "result"
    /\ ret.result.configuration = <<"active">>
    /\ ret.result.exitSet = <<"idle">>
    /\ ret.result.entrySet = <<"active">>
    /\ Len(ret.result.transitions) = 1
    /\ ret.result.transitions[1].target = <<"active">>
    /\ nodes["m"].type = "compound"
    /\ nodes["idle"].type = "atomic" /\ nodes["active"].type = "atomic"

C6_Witness == IsStartExample /\ ret.kind = "result"

\* A candidate without targets has been selected.
SelectedWithoutTargets ==
  /\ IsNext
  /\ ~ShortCircuited
  /\ \E i \in 1..Len(Declared) : Stops(i)
  /\ Passes(Declared[FirstStop])
  /\ ~HasTargets(Declared[FirstStop])

\* C7: when the selected candidate has no targets, the configuration of the
\* result is [N] if the prior state has a value and empty otherwise, the entry
\* and exit sets are empty, the transitions are the selected candidate alone
\* and the actions are exactly its actions.
C7_NoTargetResult ==
  SelectedWithoutTargets =>
    /\ ret.kind = "result"
    /\ ret.result.configuration = (IF ret.state.value.def THEN <<ret.node>> ELSE <<>>)
    /\ ret.result.entrySet = <<>>
    /\ ret.result.exitSet = <<>>
    /\ ret.result.transitions = <<Declared[FirstStop]>>
    /\ ret.result.actions = Declared[FirstStop].actions

\* A targetless candidate has been selected in a state without a value.
C7_Witness == SelectedWithoutTargets /\ ~ret.state.value.def /\ ret.kind = "result"

\* The configuration that was active in S: the nodes at the longest active paths.
PriorConfiguration ==
  {n \in DOMAIN nodes :
     /\ nodes[n].path \in ret.state.value.paths
     /\ ~\E q \in ret.state.value.paths :
           Len(q) > Len(nodes[n].path) /\ SubSeq(q, 1, Len(nodes[n].path)) = nodes[n].path}

\* An internal transition without targets and with actions has been selected.
SelectedInternalWithActions ==
  /\ SelectedWithoutTargets
  /\ Declared[FirstStop].internal
  /\ Declared[FirstStop].actions # <<>>

\* C8 as stated: such a transition returns empty entry and exit sets, the
\* configuration that was active in the prior state, and its actions among the
\* actions.
C8_ConfigurationIsPriorValue ==
  SelectedInternalWithActions =>
    /\ ret.result.entrySet = <<>>
    /\ ret.result.exitSet = <<>>
    /\ Range(ret.result.configuration) = PriorConfiguration
    /\ Range(Declared[FirstStop].actions) \subseteq Range(ret.result.actions)

\* C8 amended: such a transition returns empty entry and exit sets, its
\* actions among the actions, and the configuration [N] when the prior state
\* has a value (none otherwise), which is the configuration that was active
\* exactly when N was its only node.
C8_ConfigurationIsSelf ==
  SelectedInternalWithActions =>
    /\ ret.result.entrySet = <<>>
    /\ ret.result.exitSet = <<>>
    /\ Range(Declared[FirstStop].actions) \subseteq Range(ret.result.actions)
    /\ Range(ret.result.configuration) = (IF ret.state.value.def THEN {ret.node} ELSE {})
    /\ (Range(ret.result.configuration) = PriorConfiguration)
         <=> (PriorConfiguration = (IF ret.state.value.def THEN {ret.node} ELSE {}))

\* Such a transition has been selected on a node with an active child.
C8_Witness ==
  /\ SelectedInternalWithActions
  /\ ret.kind = "result"
  /\ PriorConfiguration # {} /\ ret.node \notin PriorConfiguration

NoCandidatePasses == \A i \in 1..Len(Declared) : ~Passes(Declared[i])

\* C9 as stated: if no candidate for E on N has both its in-condition and its
\* guard hold, next returns undefined, neither raising an error nor returning
\* a result with an empty list of transitions.
C9_NoMatchIsUndefined ==
  (IsNext /\ NoCandidatePasses) => ret.kind = "undefined"

\* C9 amended: the same, for a node that is not short-circuited as a history
\* node and a call in which no guard throws.
C9_NoMatchIsUndefinedUnlessAborted ==
  (/\ IsNext
   /\ NoCandidatePasses
   /\ ~ShortCircuited
   /\ \A i \in 1..Len(Declared) : ~GuardThrows(Declared[i])) =>
    /\ ret.kind = "undefined"
    /\ ret.result = NoResult
    /\ ret.error = NoError

\* No candidate passes although one has a guard that holds.
C9_Witness ==
  /\ IsNext /\ NoCandidatePasses /\ ~ShortCircuited
  /\ ret.kind = "undefined"
  /\ \E i \in 1..Len(Declared) : GuardHolds(Declared[i]) /\ Declared[i].cond # Undefined

(***************************************************************************)
(* Properties of construction and of initialStateValue                     *)
(***************************************************************************)

\* C10: a compound node that declares no initial child key fails validation
\* with a configuration error at construction; no constructed node is a
\* compound node without an initial key, and none yields an absent initial
\* state value.
C10_MissingInitialFailsConstruction ==
  /\ constructed =>
       \A n \in DOMAIN nodes :
          nodes[n].type = "compound" => nodes[n].initial # Undefined
  /\ (ret.op = "initialStateValue" /\ nodes[ret.node].type = "compound"
        /\ config[ret.node].initial = Undefined) => ret.kind = "error"

\* The compound node n declares an initial key that names none of its children.
UnknownInitial(n) ==
  /\ nodes[n].type = "compound"
  /\ nodes[n].initial # Undefined
  /\ ChildByKey(nodes, n, nodes[n].initial) = Undefined

IsInitialStateValue == ret.op = "initialStateValue"

C12_ParallelInitialValue ==
  (IsInitialStateValue /\ nodes[ret.node].type = "parallel" /\ ret.kind = "value") =>
     LET kids == {c \in Range(nodes[ret.node].states) : nodes[c].type # "history"}
     IN /\ ret.value.t = "object"
        /\ DOMAIN ret.value.o = {nodes[c].key : c \in kids}
        /\ \A c \in kids :
              ret.value.o[nodes[c].key] =
                 IF Truthy(cache[c].initialStateValue)
                 THEN cache[c].initialStateValue
                 ELSE ObjectValue(EmptyObject)

\* The parallel root has the parallel child work, whose entry is the value of
\* work: placeholders for w1 and w2, and no entry for the history node.
C12_Witness ==
  /\ IsInitialStateValue /\ ret.node = Root /\ ret.kind = "value"
  /\ nodes[Root].type = "parallel" /\ nodes["work"].type = "parallel"
  /\ ret.value.o["idle"] = ObjectValue(EmptyObject)
  /\ ret.value.o["work"] =
        ObjectValue([k \in {"w1", "w2"} |-> ObjectValue(EmptyObject)])

\* C13: whatever the reads of transitions, on, events and initialStateValue,
\* a view returns an equal value on every read and the computation behind it
\* runs at most once for a node.
C13_ViewsComputedOnce ==
  /\ recomputed = {}
  /\ (IsInitialStateValue /\ Truthy(ret.before.initialStateValue)) =>
        ret.kind = "value" /\ ret.value = ret.before.initialStateValue

\* C14: for every constructed tree, ids configured or not, the idMap of the
\* root has exactly one entry for each node of the tree and no two nodes have
\* the same id.
C14_IdMapComplete ==
  constructed =>
    LET idMap == nodes[Root].idMap
    IN /\ \A n \in DOMAIN nodes :
             Cardinality({id \in DOMAIN idMap : idMap[id] = n}) = 1
       /\ \A a, b \in DOMAIN nodes : a # b => nodes[a].id # nodes[b].id

\* C17: the id of a node that configures none is the key of the root and the
\* keys of its path joined by the delimiter of the root, which its
\* descendants inherit.
C17_IdJoinsWithRootDelimiter ==
  constructed =>
    \A n \in DOMAIN nodes :
       config[n].id = Undefined =>
          nodes[n].id = Join(<<nodes[Root].key>> \o nodes[n].path,
                             OrElse(config[Root].delimiter, STATE_DELIMITER))

(***************************************************************************)
(* Properties of invoke                                                    *)
(***************************************************************************)

IsInvoke == ret.op = "invoke"

\* The invocations the node of the call declares, and the id each resolves to.
Invoked == config[ret.node].invoke
GivenId(i) == Invoked[i].form = "object" /\ Invoked[i].id # Undefined
ResolvedIdOf(i) ==
  IF GivenId(i) THEN Invoked[i].id
  ELSE nodes[ret.node].id \o ":invocation[" \o ToString(i - 1) \o "]"
InPlace(i) == ~Invoked[i].src.named

\* C15: whatever the reads of invoke, an invocation without an id is given
\* the id <nodeId>:invocation[<index>]; an implementation given in place is
\* written to the service table under its resolved id only when the table
\* has no entry under it; a named reference does not change the table; and
\* no entry of the table is overwritten or removed.
C15_InvokeRegistersOnce ==
  IsInvoke =>
    /\ Len(ret.value) = Len(Invoked)
    /\ \A i \in 1..Len(Invoked) :
          /\ ret.value[i].id = ResolvedIdOf(i)
          /\ Invoked[i].src.named =>
                ret.value[i].src = Invoked[i].src.ref
          /\ InPlace(i) =>
                /\ ret.value[i].src = ResolvedIdOf(i)
                /\ ResolvedIdOf(i) \in DOMAIN services
    /\ \A k \in DOMAIN ret.table :
          k \in DOMAIN services /\ services[k] = ret.table[k]
    /\ \A k \in DOMAIN services \ DOMAIN ret.table :
          \E i \in 1..Len(Invoked) :
             InPlace(i) /\ ResolvedIdOf(i) = k /\ services[k] = Invoked[i].src.ref

\* A read of invoke has written one implementation under a generated id and
\* has left alone the entry another implementation resolves to.
C15_Witness ==
  /\ IsInvoke
  /\ \E i \in 1..Len(Invoked) :
        InPlace(i) /\ ~GivenId(i) /\ ResolvedIdOf(i) \notin DOMAIN ret.table
          /\ services[ResolvedIdOf(i)] = Invoked[i].src.ref
  /\ \E i \in 1..Len(Invoked) :
        InPlace(i) /\ ResolvedIdOf(i) \in DOMAIN ret.table
          /\ services[ResolvedIdOf(i)] # Invoked[i].src.ref

(***************************************************************************)
(* Properties of events and handles                                        *)
(***************************************************************************)

\* The event types of the handlers of n that have a target, or actions, or
\* are declared external.
OwnEventsOf(n) ==
  {h.event : h \in {g \in Range(config[n].on) :
                      g.hasTarget \/ g.actions # <<>> \/ g.internal = "false"}}

RECURSIVE EventsBelowNested(_)
\* The own events of n and of its descendants reached through children that
\* have children themselves.
EventsBelowNested(n) ==
  OwnEventsOf(n)
    \cup UNION {EventsBelowNested(c) :
                 c \in {k \in Range(config[n].states) : config[k].states # <<>>}}

RECURSIVE EventsBelow(_)
\* The own events of n and of all its descendants.
EventsBelow(n) ==
  OwnEventsOf(n) \cup UNION {EventsBelow(c) : c \in Range(config[n].states)}

\* The event is handled by a leaf child of n and by nothing else under n.
OnlyByLeafChild(n, e) ==
  /\ \E c \in Range(config[n].states) : config[c].states = <<>> /\ e \in OwnEventsOf(c)
  /\ e \notin EventsBelowNested(n)

\* C16: the events of a node are its ownEvents and the events of exactly those
\* children that have children themselves; an event handled only by a leaf
\* child is not among the events of the parent, and handles on the parent
\* returns false for it.
C16_EventsSkipLeafChildren ==
  /\ ret.op = "events" => Range(ret.value) = EventsBelowNested(ret.node)
  /\ (ret.op = "handles" /\ OnlyByLeafChild(ret.node, ret.event)) => ret.value = FALSE

\* C16, as it holds: the events of a node are its ownEvents and the events of
\* every child, leaf children included, each event type once; handles
\* returns true exactly for the event types among them, so for an event
\* handled only by a leaf child as well.
C16_EventsOfAllChildren ==
  /\ ret.op = "events" =>
        /\ Range(ret.value) = EventsBelow(ret.node)
        /\ Len(ret.value) = Cardinality(Range(ret.value))
  /\ ret.op = "handles" => ret.value = (ret.event \in EventsBelow(ret.node))

\* handles on a parent has returned true for an event that only a leaf child
\* of it handles.
C16_Witness ==
  /\ ret.op = "handles" /\ OnlyByLeafChild(ret.node, ret.event)
  /\ ret.value = TRUE

(***************************************************************************)
(* Properties of the caches behind next                                    *)
(***************************************************************************)

\* What a call of next gives its caller.
OutcomeOf(r) ==
  [kind |-> r.kind, result |-> r.result, error |-> r.error, selected |-> r.selected]

\* The entries the cache `before` holds are those of the cache `after`.
Intact(before, after) ==
  /\ before.transitions.def => after.transitions = before.transitions
  /\ \A e \in EventNames :
        before.candidates[e].def => after.candidates[e] = before.candidates[e]

Aborted == IsNext /\ ret.kind = "error"

\* C18: a call of next that aborts with a guard error leaves the cached
\* transitions and the cached candidates of every event as they were, and
\* any later call of next on the node, for the same event or another,
\* returns what it would have returned had the failed call not been made.
C18_GuardErrorLeavesCacheIntact ==
  Aborted =>
    /\ Intact(ret.before, cache[ret.node])
    /\ \A S \in Snapshots, E \in EventNames :
          OutcomeOf(next(nodes, cache[ret.node], ret.node, S, E))
            = OutcomeOf(next(nodes, ret.before, ret.node, S, E))

\* The failed call found the candidates of the other event cached and
\* computed those of its own event.
C18_Witness ==
  /\ Aborted
  /\ ~ret.before.candidates[ret.event].def
  /\ \E e \in EventNames \ {ret.event} :
        ret.before.candidates[e].def /\ ret.before.candidates[e].list # <<>>
  /\ cache[ret.node].candidates[ret.event].list # <<>>

\* C19: the candidate cache is transparent: whatever calls of next preceded,
\* the result of next for a snapshot and an event is the result on a node
\* just constructed, and the cache entry of an event name, once set, does not
\* change (it is the list of the node's transitions for that event, and a
\* call leaves the entries it found as they were).
C19_CandidateCacheTransparent ==
  constructed =>
    /\ IsNext =>
          /\ OutcomeOf(ret) =
               OutcomeOf(next(nodes, EmptyCache, ret.node, ret.state, ret.event))
          /\ Intact(ret.before, cache[ret.node])
    /\ \A e \in EventNames :
          cache[subject].candidates[e].def =>
             cache[subject].candidates[e].list =
                getCandidates(formatTransitions(nodes, subject), e)

\* A call selects a transition from candidates it found cached, the
\* candidates of the other event being cached too.
C19_Witness ==
  /\ Selected
  /\ \A e \in EventNames : ret.before.candidates[e].def
  /\ \E e \in EventNames \ {ret.event} : ret.before.candidates[e].list # <<>>

(***************************************************************************)
(* Properties of the guards of candidates whose in-condition fails         *)
(***************************************************************************)

\* The candidates the iteration visits: those up to the one it stops at.
Visited ==
  IF \E i \in 1..Len(Declared) : Stops(i) THEN 1..FirstStop ELSE 1..Len(Declared)

GuardErrorOf(c) ==
  IF GuardName(c.cond) # "" THEN GuardName(c.cond) ELSE GuardType(c.cond)

\* C20: next calls the guard of every candidate it visits whether or not the
\* in-condition of the candidate holds; the guard of a candidate whose
\* in-condition is false is called, and if it throws the call aborts with
\* the guard error although the candidate could not have been selected.
C20_GuardCalledWhateverIn ==
  (IsNext /\ ~ShortCircuited) =>
    \A i \in Visited :
       /\ Declared[i].cond # Undefined =>
             \E k \in 1..Len(ret.guardLog) :
                ret.guardLog[k] = [index |-> i, guard |-> Declared[i].cond]
       /\ (~InHolds(Declared[i]) /\ GuardThrows(Declared[i])) =>
             /\ ret.kind = "error"
             /\ ret.selected = i
             /\ ret.error.guard = GuardErrorOf(Declared[i])
             /\ ret.result = NoResult

\* The guard of a candidate whose in-condition is false has thrown, and a
\* later candidate passes both tests.
C20_Witness ==
  /\ IsNext /\ ~ShortCircuited /\ ret.kind = "error"
  /\ \E i \in Visited :
        /\ ~InHolds(Declared[i]) /\ GuardThrows(Declared[i])
        /\ \E j \in (i + 1)..Len(Declared) : Passes(Declared[j])

====
